---- MODULE Spec2Model ----
(***************************************************************************)
(* Model of the tweet harvesting engine of src/src/App.tsx (second App,    *)
(* lines 264-491): the in-page Collector (collectTweets.scrollAndCollect), *)
(* the secondary fetch (scrapeComments) and the Orchestrator               *)
(* (scrapeTweets), together with the browser environment they run in.      *)
(*                                                                         *)
(* A Tweet is modelled by the two fields the engine itself reads and       *)
(* writes, tweetUrl and comments; the remaining fields are opaque strings  *)
(* copied from the document and never inspected.                           *)
(***************************************************************************)
EXTENDS Integers, Sequences, FiniteSets, TLC

\* ------------------------------------------------------------------ bounds
NumUrls == 2
MaxNodes == 3
MaxHeight == 1
MaxReplies == 1
MaxRuns == 2
\* the specification ObservedSpec: the Collector's first ticks on documents
\* over more URLs, with every scan recorded
NumObservedUrls == 3
MaxObservedTicks == 2

\* ------------------------------------------------------- program constants
maxScrollAttempts == 50
DefaultTweetCount == 50
SmallTweetCount == 2

\* ------------------------------------------------------------------ values
NULL == "<null>"
AllUrls == <<"/u/status/1", "/u/status/2", "/u/status/3", "/u/status/4">>
Urls == {AllUrls[n] : n \in 1..NumUrls}
\* what a candidate node yields as tweetUrl: the href of its a[href*="/status/"]
\* link, or null when it has no such link
Hrefs == Urls \cup {NULL}
Documents == UNION {[1..n -> Hrefs] : n \in 0..MaxNodes}
ObservedUrls == {AllUrls[n] : n \in 1..NumObservedUrls}
ObservedDocuments == UNION {[1..n -> ObservedUrls \cup {NULL}] : n \in 0..MaxNodes}
Heights == 0..MaxHeight
FeedUrl == "https://twitter.com/home"
RECURSIVE SeqsUpTo(_, _)
SeqsUpTo(S, n) ==
  IF n = 0 THEN {<<>>}
  ELSE LET shorter == SeqsUpTo(S, n - 1)
       IN shorter \cup {Append(s, x) : s \in {t \in shorter : Len(t) = n - 1}, x \in S}
\* what the reply extraction routine can return
CommentLists == SeqsUpTo({"c1"}, MaxReplies)
\* useState<ScrapedData | null>(null): null as a record of the same shape
NoData == [isNull |-> TRUE, tweets |-> <<>>]
\* JS undefined for `tab` when chrome.tabs.query resolves with []
Undefined == [id |-> -1, url |-> NULL]
\* the views the environment can have active: a feed tab, a tab whose url is
\* not exposed, a tab without id
Views == {[id |-> 1, url |-> FeedUrl], [id |-> 2, url |-> NULL], [id |-> 0, url |-> NULL]}
ActiveViews == Views \cup {Undefined}
TweetCounts == {SmallTweetCount, DefaultTweetCount}

\* JS truthiness of a string-or-null value and of a tab id
Truthy(v) == v # NULL /\ v # ""
TruthyId(n) == n > 0
Range(s) == {s[k] : k \in 1..Len(s)}
UrlsOf(ts) == [k \in 1..Len(ts) |-> ts[k].tweetUrl]
NoDup(s) == \A a, b \in 1..Len(s) : s[a] = s[b] => a = b
IsPrefix(s, t) == Len(s) <= Len(t) /\ \A k \in 1..Len(s) : s[k] = t[k]

VARIABLES
  \* React state of App
  scrapedData, isLoading, error, progress, tweetCount,
  \* environment: the view chrome.tabs.query({active, currentWindow}) yields
  activeView,
  \* frame of scrapeTweets
  pc, tab, originalUrl, tweets, i,
  \* frames of scrapeComments, one per call (indexed by the item it was called for)
  sc,
  \* page context: window._targetTweetCount and the closure of scrollAndCollect
  targetTweetCount, status, previousHeight, currentHeight, scrollAttempts,
  processedTweetUrls, pageTweets,
  \* history: events of the current run, first-seen order of scanned URLs,
  \* whether the Collector met a listed URL again and a node without URL,
  \* the list the Collector resolved with, number of runs started, outcome
  log, firstSeen, reseen, skipped, collected, runs, outcome, dataAtStart

uiVars == <<scrapedData, isLoading, error, progress, tweetCount>>
frameVars == <<pc, tab, originalUrl, tweets, i>>
pageVars == <<targetTweetCount, status, previousHeight, currentHeight, scrollAttempts,
             processedTweetUrls, pageTweets>>
histVars == <<log, firstSeen, reseen, skipped, collected, runs, outcome, dataAtStart>>
vars == <<scrapedData, isLoading, error, progress, tweetCount, activeView,
          pc, tab, originalUrl, tweets, i, sc,
          targetTweetCount, status, previousHeight, currentHeight, scrollAttempts,
          processedTweetUrls, pageTweets,
          log, firstSeen, reseen, skipped, collected, runs, outcome, dataAtStart>>

\* events of the history variable log
Ev(e, t, u, k, n, r) == [ev |-> e, tab |-> t, url |-> u, idx |-> k, n |-> n, res |-> r]
NavEv(t, u, k) == Ev("nav", t, u, k, 0, <<>>)
InjectEv(t, what, k) == Ev("inject", t, what, k, 0, <<>>)
ProgressEv(what, k, n) == Ev("progress", 0, what, k, n, <<>>)
ReturnEv(how, k, r) == Ev("return", 0, how, k, 0, r)
AttachEv(k, r) == Ev("attach", 0, "", k, 0, r)
PublishEv(n) == Ev("publish", 0, "", 0, n, <<>>)
FailureEv(msg) == Ev("failure", 0, msg, 0, 0, <<>>)
SettleEv(k) == Ev("settle", 0, "", k, 0, <<>>)
CollectedEv(n) == Ev("collected", 0, "", 0, n, <<>>)
CallEv(u, k) == Ev("call", 0, u, k, 0, <<>>)
ScanEv(doc, height, k) == Ev("scan", 0, "", k, height, doc)

\* messages
ErrPrefix == "Error scraping tweets: "
ErrNoTab == "No active tab found"
ErrNoTweets == "No tweets found on this page"
ErrTypeError == "Cannot read properties of undefined (reading 'id')"
ErrApi == "chrome API call rejected"
MsgStart == "Starting tweet scraping..."
MsgFinding == "Finding tweets..."
MsgDone == "Scraping completed successfully!"
MsgItem(k, n) == "Scraping comments for tweet " \o ToString(k) \o " of " \o ToString(n) \o "..."
DetailAddress(tweetUrl) == "https://twitter.com" \o tweetUrl
NoFrame == [pc |-> "none", tab |-> Undefined, tweetUrl |-> "", result |-> <<>>]
MaxItems == NumUrls

Init ==
  /\ scrapedData = NoData
  /\ isLoading = FALSE
  /\ error = NULL
  /\ progress = ""
  /\ tweetCount = DefaultTweetCount
  /\ activeView \in ActiveViews
  /\ pc = "idle"
  /\ tab = Undefined
  /\ originalUrl = NULL
  /\ tweets = <<>>
  /\ i = 0
  /\ sc = [k \in 1..MaxItems |-> NoFrame]
  /\ targetTweetCount = 0
  /\ status = "off"
  /\ previousHeight = 0
  /\ currentHeight = 0
  /\ scrollAttempts = 0
  /\ processedTweetUrls = {}
  /\ pageTweets = <<>>
  /\ log = <<>>
  /\ firstSeen = <<>>
  /\ reseen = FALSE
  /\ skipped = FALSE
  /\ collected = <<>>
  /\ runs = 0
  /\ outcome = "none"
  /\ dataAtStart = NoData

\* ---------------------------------------------------------------- Collector
\* ScanNode without the processedTweetUrls.has(tweetUrl) test
ScanNodeNoSeenTest(acc, href) ==
  IF ~Truthy(href)
  THEN acc
  ELSE [list |-> Append(acc.list, [tweetUrl |-> href, comments |-> <<>>]),
        seen |-> acc.seen \cup {href}]

\* ScanNode with unshift in place of push
ScanNodeUnshift(acc, href) ==
  IF ~Truthy(href) \/ href \in acc.seen
  THEN acc
  ELSE [list |-> <<[tweetUrl |-> href, comments |-> <<>>]>> \o acc.list,
        seen |-> acc.seen \cup {href}]

\* ScanNode with a processed URL represented by its latest node: the earlier
\* item is dropped and the node pushed again
ScanNodeKeepLast(acc, href) ==
  IF ~Truthy(href)
  THEN acc
  ELSE LET Other(t) == t.tweetUrl # href
       IN [list |-> Append(SelectSeq(acc.list, Other), [tweetUrl |-> href, comments |-> <<>>]),
           seen |-> acc.seen \cup {href}]

\* ScanNode without the !tweetUrl test
ScanNodeNoUrlTest(acc, href) ==
  IF href \in acc.seen
  THEN acc
  ELSE [list |-> Append(acc.list, [tweetUrl |-> href, comments |-> <<>>]),
        seen |-> acc.seen \cup {href}]

\* one candidate node of the forEach: skipped when its URL is absent, empty or
\* already processed; otherwise pushed and marked processed
ScanNode(acc, href) ==
  IF ~Truthy(href) \/ href \in acc.seen
  THEN acc
  ELSE [list |-> Append(acc.list, [tweetUrl |-> href, comments |-> <<>>]),
        seen |-> acc.seen \cup {href}]

RECURSIVE ScanDocument(_, _)
ScanDocument(acc, doc) ==
  IF doc = <<>> THEN acc
  ELSE ScanDocument(ScanNode(acc, Head(doc)), Tail(doc))

\* the stop predicate with the ceiling tested by > instead of >=
StopPredicateOffByOne(height, prevHeight, count, target, attempts) ==
  \/ height = prevHeight
  \/ count >= target
  \/ attempts > maxScrollAttempts

\* the stop predicate without the test of the content extent
StopPredicateNoStagnation(height, prevHeight, count, target, attempts) ==
  \/ count >= target
  \/ attempts >= maxScrollAttempts

\* the stop predicate with the item count tested by > instead of >=
StopPredicateCountStrict(height, prevHeight, count, target, attempts) ==
  \/ height = prevHeight
  \/ count > target
  \/ attempts >= maxScrollAttempts

\* the stop predicate of one tick
StopPredicate(height, prevHeight, count, target, attempts) ==
  \/ height = prevHeight
  \/ count >= target
  \/ attempts >= maxScrollAttempts

\* reference for the history variable firstSeen: the distinct truthy entries of
\* a sequence in order of first appearance
RECURSIVE FirstAppearances(_)
FirstAppearances(s) ==
  IF s = <<>> THEN <<>>
  ELSE LET front == SubSeq(s, 1, Len(s) - 1)
           last == s[Len(s)]
           rest == FirstAppearances(front)
       IN IF Truthy(last) /\ last \notin Range(front) THEN Append(rest, last) ELSE rest

\* history: the document holds, at another position than in the list, a URL
\* that an earlier tick has put on the list
Reseen(list, doc) ==
  \E p \in 1..Len(doc), q \in 1..Len(list) : doc[p] = list[q].tweetUrl /\ p # q

\* TickOn with the stop predicate tested before scrollAttempts++
TickOnTestBeforeIncrement(doc, scrollHeight) ==
  LET acc == ScanDocument([list |-> pageTweets, seen |-> processedTweetUrls], doc)
      attempts == scrollAttempts + 1
  IN /\ pageTweets' = acc.list
     /\ processedTweetUrls' = acc.seen
     /\ currentHeight' = scrollHeight
     /\ scrollAttempts' = attempts
     /\ IF StopPredicate(scrollHeight, previousHeight, Len(acc.list),
                         targetTweetCount, scrollAttempts)
        THEN status' = "resolved" /\ UNCHANGED previousHeight
        ELSE status' = "running" /\ previousHeight' = scrollHeight
     /\ firstSeen' = FirstAppearances(firstSeen \o doc)
     /\ reseen' = (reseen \/ Reseen(pageTweets, doc))
     /\ skipped' = (skipped \/ \E p \in 1..Len(doc) : ~Truthy(doc[p]))

\* the body of the setInterval callback of scrollAndCollect run on the
\* document doc with the scroll extent scrollHeight read after the scroll
TickOn(doc, scrollHeight) ==
  LET acc == ScanDocument([list |-> pageTweets, seen |-> processedTweetUrls], doc)
      attempts == scrollAttempts + 1
  IN /\ pageTweets' = acc.list
     /\ processedTweetUrls' = acc.seen
     /\ currentHeight' = scrollHeight
     /\ scrollAttempts' = attempts
     /\ IF StopPredicate(scrollHeight, previousHeight, Len(acc.list),
                         targetTweetCount, attempts)
        THEN status' = "resolved" /\ UNCHANGED previousHeight
        ELSE status' = "running" /\ previousHeight' = scrollHeight
     /\ firstSeen' = FirstAppearances(firstSeen \o doc)
     /\ reseen' = (reseen \/ Reseen(pageTweets, doc))
     /\ skipped' = (skipped \/ \E p \in 1..Len(doc) : ~Truthy(doc[p]))

\* one firing of the setInterval callback of scrollAndCollect
Tick ==
  /\ status = "running"
  /\ \E doc \in Documents, scrollHeight \in Heights : TickOn(doc, scrollHeight)
  /\ UNCHANGED <<uiVars, activeView, frameVars, sc, targetTweetCount, log, collected, runs, outcome, dataAtStart>>

\* one of the first firings of the callback, on a document drawn from the
\* larger set ObservedDocuments, with the scanned document and the extent
\* recorded in the log
ObservedTick ==
  /\ status = "running"
  /\ scrollAttempts < MaxObservedTicks
  /\ \E doc \in ObservedDocuments, scrollHeight \in Heights :
       /\ TickOn(doc, scrollHeight)
       /\ log' = Append(log, ScanEv(doc, scrollHeight, scrollAttempts + 1))
  /\ UNCHANGED <<uiVars, activeView, frameVars, sc, targetTweetCount, collected, runs, outcome, dataAtStart>>

\* -------------------------------------------------------------- Orchestrator
\* the Scrape Tweets button never disabled
ButtonAlwaysEnabled == TRUE

\* the Scrape Tweets button: disabled={isLoading}
ButtonEnabled == ~isLoading

\* the tweet count input: onChange={(e) => setTweetCount(Number(e.target.value))}.
\* scrapeTweets reads the value of the render in which the button was clicked,
\* so a change made during a run acts on later runs only; it is taken here
\* between runs.
SetTweetCount ==
  /\ pc = "idle"
  /\ \E c \in TweetCounts : c # tweetCount /\ tweetCount' = c
  /\ UNCHANGED <<scrapedData, isLoading, error, progress, activeView, frameVars, sc, pageVars, histVars>>

\* the user or the browser changes which view is the active one of the window.
\* The program observes the active view only through chrome.tabs.query, so a
\* change is taken while a query is pending, whenever it happened before.
QueryPending == pc = "query" \/ \E k \in 1..MaxItems : sc[k].pc = "query"

SwitchView ==
  /\ QueryPending
  /\ \E v \in ActiveViews : v # activeView /\ activeView' = v
  /\ UNCHANGED <<uiVars, frameVars, sc, pageVars, histVars>>

\* Fail without the finally block: isLoading is left as it is
FailKeepsLoading(msg) ==
  /\ error' = ErrPrefix \o msg
  /\ isLoading' = isLoading
  /\ pc' = "idle"
  /\ outcome' = "failure"
  /\ log' = Append(log, FailureEv(msg))

\* Fail without setError
FailSilent(msg) ==
  /\ error' = error
  /\ isLoading' = FALSE
  /\ pc' = "idle"
  /\ outcome' = "failure"
  /\ log' = Append(log, FailureEv(msg))

\* catch (err) { setError(...) } finally { setIsLoading(false) }
Fail(msg) ==
  /\ error' = ErrPrefix \o msg
  /\ isLoading' = FALSE
  /\ pc' = "idle"
  /\ outcome' = "failure"
  /\ log' = Append(log, FailureEv(msg))

\* a click on the enabled button: scrapeTweets up to its first await (lines
\* 428-434). The button is the only caller and its disabled attribute the
\* only guard; the function itself tests nothing before it starts.
Start ==
  /\ ButtonEnabled
  /\ runs < MaxRuns
  /\ isLoading' = TRUE
  /\ error' = NULL
  /\ progress' = MsgStart
  /\ pc' = "query"
  /\ tab' = Undefined
  /\ originalUrl' = NULL
  /\ tweets' = <<>>
  /\ i' = 0
  /\ sc' = [k \in 1..MaxItems |-> NoFrame]
  /\ log' = <<ProgressEv(MsgStart, 0, 0)>>
  /\ collected' = <<>>
  /\ firstSeen' = <<>>
  /\ reseen' = FALSE
  /\ skipped' = FALSE
  /\ runs' = runs + 1
  /\ outcome' = "running"
  /\ dataAtStart' = scrapedData
  /\ UNCHANGED <<scrapedData, tweetCount, activeView, pageVars>>

\* chrome.tabs.query resolved: lines 434-450, up to the await of the first
\* executeScript. `tab` is undefined when the query yields no view.
QueryTab ==
  /\ pc = "query"
  /\ IF activeView = Undefined
     THEN /\ Fail(ErrTypeError)
          /\ UNCHANGED <<progress, tab>>
     ELSE IF ~TruthyId(activeView.id)
     THEN /\ Fail(ErrNoTab)
          /\ tab' = activeView
          /\ UNCHANGED progress
     ELSE /\ tab' = activeView
          /\ progress' = MsgFinding
          /\ pc' = "injectCount"
          /\ log' = Append(Append(log, ProgressEv(MsgFinding, 0, 0)),
                           InjectEv(activeView.id, "targetCount", 0))
          /\ UNCHANGED <<isLoading, error, outcome>>
  /\ UNCHANGED <<scrapedData, tweetCount, activeView, originalUrl, tweets, i, sc, pageVars,
                 firstSeen, reseen, skipped, collected, runs, dataAtStart>>

\* the target count injection resolved (window._targetTweetCount = count) and
\* the Collector injection is issued (lines 444-456)
InjectCount ==
  /\ pc = "injectCount"
  /\ targetTweetCount' = tweetCount
  /\ pc' = "injectCollector"
  /\ log' = Append(log, InjectEv(tab.id, "collectTweets", 0))
  /\ UNCHANGED <<uiVars, activeView, tab, originalUrl, tweets, i, sc,
                 status, previousHeight, currentHeight, scrollAttempts, processedTweetUrls,
                 pageTweets, firstSeen, reseen, skipped, collected, runs, outcome, dataAtStart>>

\* the target count injection rejected
InjectCountFails ==
  /\ pc = "injectCount"
  /\ Fail(ErrApi)
  /\ UNCHANGED <<scrapedData, progress, tweetCount, activeView, tab, originalUrl, tweets, i, sc,
                 pageVars, firstSeen, reseen, skipped, collected, runs, dataAtStart>>

\* collectTweets starts in the page: a fresh closure of scrollAndCollect
\* (lines 276-284)
CollectorStarts ==
  /\ pc = "injectCollector"
  /\ status = "off"
  /\ status' = "running"
  /\ previousHeight' = 0
  /\ currentHeight' = 0
  /\ scrollAttempts' = 0
  /\ processedTweetUrls' = {}
  /\ pageTweets' = <<>>
  /\ firstSeen' = <<>>
  /\ reseen' = FALSE
  /\ skipped' = FALSE
  /\ pc' = "collect"
  /\ UNCHANGED <<uiVars, activeView, tab, originalUrl, tweets, i, sc, targetTweetCount,
                 log, collected, runs, outcome, dataAtStart>>

\* the Collector injection rejected
InjectCollectorFails ==
  /\ pc = "injectCollector"
  /\ status = "off"
  /\ Fail(ErrApi)
  /\ UNCHANGED <<scrapedData, progress, tweetCount, activeView, tab, originalUrl, tweets, i, sc,
                 pageVars, firstSeen, reseen, skipped, collected, runs, dataAtStart>>

\* Publish with the completion signal emitted before the result is stored
PublishSignalFirst ==
  /\ scrapedData' = [isNull |-> FALSE, tweets |-> tweets]
  /\ progress' = MsgDone
  /\ isLoading' = FALSE
  /\ pc' = "idle"
  /\ outcome' = "success"
  /\ log' = Append(Append(log, ProgressEv(MsgDone, 0, 0)), PublishEv(Len(tweets)))

\* setScrapedData({ tweets }); setProgress(done); finally setIsLoading(false)
\* (lines 482-484, 489)
Publish ==
  /\ scrapedData' = [isNull |-> FALSE, tweets |-> tweets]
  /\ progress' = MsgDone
  /\ isLoading' = FALSE
  /\ pc' = "idle"
  /\ outcome' = "success"
  /\ log' = Append(Append(log, PublishEv(Len(tweets))), ProgressEv(MsgDone, 0, 0))

\* !result?.result?.length with the test dropped
IsEmptyResultNever(result) == FALSE

\* !result?.result?.length (line 460)
IsEmptyResult(result) == Len(result) = 0

\* the Collector's promise resolved and scrapeTweets resumes (lines 458-465);
\* the closure of scrollAndCollect is unreachable from then on
CollectReturn ==
  /\ pc = "collect"
  /\ status = "resolved"
  /\ collected' = pageTweets
  /\ reseen' = FALSE
  /\ skipped' = FALSE
  /\ status' = "off"
  /\ previousHeight' = 0
  /\ currentHeight' = 0
  /\ scrollAttempts' = 0
  /\ processedTweetUrls' = {}
  /\ pageTweets' = <<>>
  /\ IF IsEmptyResult(pageTweets)
     THEN /\ error' = ErrPrefix \o ErrNoTweets
          /\ isLoading' = FALSE
          /\ pc' = "idle"
          /\ outcome' = "failure"
          /\ log' = Append(Append(log, CollectedEv(Len(pageTweets))), FailureEv(ErrNoTweets))
          /\ UNCHANGED <<originalUrl, tweets, i>>
     ELSE /\ originalUrl' = tab.url
          /\ tweets' = pageTweets
          /\ i' = 1
          /\ pc' = "loop"
          /\ log' = Append(log, CollectedEv(Len(pageTweets)))
          /\ UNCHANGED <<isLoading, error, outcome>>
  /\ UNCHANGED <<scrapedData, progress, tweetCount, activeView, tab, sc, targetTweetCount,
                 firstSeen, runs, dataAtStart>>

\* the call of scrapeComments taken as returned at once (a missing await)
AwaitedAtOnce(k) == sc[k].pc # "none"

\* whether the call of scrapeComments for item k has returned: what the await
\* of line 472 waits for
Awaited(k) == sc[k].pc = "returned"

\* if (originalUrl) with the restoring navigation left out
ShouldRestoreNever(url) == FALSE

\* if (originalUrl) (line 478)
ShouldRestore(url) == Truthy(url)

\* the replies written to the first item whatever the index
AttachCommentsToFirst(ts, k, comments) == [ts EXCEPT ![1].comments = comments]

\* the replies written to every item of the list
AttachCommentsToAll(ts, k, comments) == [j \in 1..Len(ts) |-> [ts[j] EXCEPT !.comments = comments]]

\* tweets[i].comments = comments (line 473)
AttachComments(ts, k, comments) == [ts EXCEPT ![k].comments = comments]

\* the loop condition leaving out the last item
LoopContinuesShort(k, ts) == k < Len(ts)

\* i < tweets.length (line 468), i counted from 1
LoopContinues(k, ts) == k <= Len(ts)

\* the head of the for loop (lines 468-472) and, past the last item, the
\* restoring navigation or the publication (lines 478-484). i counts from 1.
Loop ==
  /\ pc = "loop"
  /\ IF LoopContinues(i, tweets)
     THEN /\ progress' = MsgItem(i, Len(tweets))
          /\ IF Truthy(tweets[i].tweetUrl)
             THEN /\ sc' = [sc EXCEPT ![i] = [pc |-> "query", tab |-> Undefined,
                                              tweetUrl |-> tweets[i].tweetUrl, result |-> <<>>]]
                  /\ pc' = "await"
                  /\ UNCHANGED i
             ELSE /\ i' = i + 1
                  /\ UNCHANGED <<sc, pc>>
          /\ log' = IF Truthy(tweets[i].tweetUrl)
                     THEN Append(Append(log, ProgressEv("item", i, Len(tweets))),
                                 CallEv(tweets[i].tweetUrl, i))
                     ELSE Append(log, ProgressEv("item", i, Len(tweets)))
          /\ UNCHANGED <<scrapedData, isLoading, error, outcome>>
     ELSE IF ShouldRestore(originalUrl)
     THEN /\ pc' = "restore"
          /\ log' = Append(log, NavEv(tab.id, originalUrl, 0))
          /\ UNCHANGED <<uiVars, i, sc, outcome>>
     ELSE /\ Publish
          /\ UNCHANGED <<error, i, sc>>
  /\ UNCHANGED <<tweetCount, activeView, tab, originalUrl, tweets, pageVars, firstSeen, reseen, skipped, collected, runs, dataAtStart>>

\* scrapeComments returned and the loop body resumes (line 473)
Attach ==
  /\ pc = "await"
  /\ Awaited(i)
  /\ tweets' = AttachComments(tweets, i, sc[i].result)
  /\ i' = i + 1
  /\ pc' = "loop"
  /\ log' = Append(log, AttachEv(i, sc[i].result))
  /\ UNCHANGED <<uiVars, activeView, tab, originalUrl, sc, pageVars, firstSeen, reseen, skipped, collected, runs, outcome, dataAtStart>>

\* the restoring navigation resolved (lines 479-484)
Restore ==
  /\ pc = "restore"
  /\ Publish
  /\ UNCHANGED <<error, tweetCount, activeView, tab, originalUrl, tweets, i, sc, pageVars,
                 firstSeen, reseen, skipped, collected, runs, dataAtStart>>

\* the restoring navigation rejected
RestoreFails ==
  /\ pc = "restore"
  /\ Fail(ErrApi)
  /\ UNCHANGED <<scrapedData, progress, tweetCount, activeView, tab, originalUrl, tweets, i, sc,
                 pageVars, firstSeen, reseen, skipped, collected, runs, dataAtStart>>

\* ------------------------------------------------------------ scrapeComments
\* catch (error) { return [] } (lines 422-425) and a normal return (line 421)
ScReturn(k, how, r) ==
  /\ sc' = [sc EXCEPT ![k].pc = "returned", ![k].result = r]
  /\ log' = Append(log, ReturnEv(how, k, r))

ScUnchanged == <<uiVars, activeView, frameVars, pageVars, firstSeen, reseen, skipped, collected, runs, outcome, dataAtStart>>

\* chrome.tabs.query resolved inside scrapeComments; the navigation to the
\* detail address is issued (lines 394-397)
ScQuery(k) ==
  /\ sc[k].pc = "query"
  /\ IF activeView = Undefined \/ ~TruthyId(activeView.id)
     THEN ScReturn(k, "caught:lookup", <<>>)
     ELSE /\ sc' = [sc EXCEPT ![k].pc = "update", ![k].tab = activeView]
          /\ log' = Append(log, NavEv(activeView.id, DetailAddress(sc[k].tweetUrl), k))
  /\ UNCHANGED ScUnchanged

\* the detail navigation resolved; the settle timer is started (line 398)
ScUpdate(k) ==
  /\ sc[k].pc = "update"
  /\ sc' = [sc EXCEPT ![k].pc = "sleep"]
  /\ UNCHANGED <<ScUnchanged, log>>

\* the rejected detail navigation ignored: the extraction is injected at once
ScUpdateFailsInjects(k) ==
  /\ sc[k].pc = "update"
  /\ sc' = [sc EXCEPT ![k].pc = "exec"]
  /\ log' = Append(log, InjectEv(sc[k].tab.id, "extractComments", k))
  /\ UNCHANGED ScUnchanged

\* the detail navigation rejected
ScUpdateFails(k) ==
  /\ sc[k].pc = "update"
  /\ ScReturn(k, "caught:navigate", <<>>)
  /\ UNCHANGED ScUnchanged

\* the settle delay elapsed; the reply extraction is injected (line 400)
ScSettle(k) ==
  /\ sc[k].pc = "sleep"
  /\ sc' = [sc EXCEPT ![k].pc = "exec"]
  /\ log' = Append(Append(log, SettleEv(k)), InjectEv(sc[k].tab.id, "extractComments", k))
  /\ UNCHANGED ScUnchanged

\* result.result || []
OrEmpty(raw) == IF raw.present THEN raw.value ELSE <<>>
ExecResults == {[present |-> TRUE, value |-> r] : r \in CommentLists}
               \cup {[present |-> FALSE, value |-> <<>>]}

\* the reply extraction resolved (line 421)
ScExec(k) ==
  /\ sc[k].pc = "exec"
  /\ \E raw \in ExecResults : ScReturn(k, "ok", OrEmpty(raw))
  /\ UNCHANGED ScUnchanged

\* the reply extraction rejected
ScExecFails(k) ==
  /\ sc[k].pc = "exec"
  /\ ScReturn(k, "caught:extract", <<>>)
  /\ UNCHANGED ScUnchanged

Next ==
  \/ SetTweetCount
  \/ SwitchView
  \/ Start
  \/ QueryTab
  \/ InjectCount
  \/ InjectCountFails
  \/ CollectorStarts
  \/ InjectCollectorFails
  \/ Tick
  \/ CollectReturn
  \/ Loop
  \/ Attach
  \/ Restore
  \/ RestoreFails
  \/ \E k \in 1..MaxItems :
       \/ ScQuery(k)
       \/ ScUpdate(k)
       \/ ScUpdateFails(k)
       \/ ScSettle(k)
       \/ ScExec(k)
       \/ ScExecFails(k)

Spec == Init /\ [][Next]_vars

\* the interval timer of the Collector keeps firing while it is not cleared
FairSpec == Spec /\ WF_vars(Tick)

\* a run up to the resolution of the Collector, its ticks observed
ObservedNext ==
  \/ SetTweetCount
  \/ SwitchView
  \/ Start
  \/ QueryTab
  \/ InjectCount
  \/ CollectorStarts
  \/ ObservedTick

ObservedSpec == Init /\ [][ObservedNext]_vars

TypeOK ==
  /\ isLoading \in BOOLEAN
  /\ tweetCount \in TweetCounts
  /\ activeView \in ActiveViews
  /\ pc \in {"idle", "query", "injectCount", "injectCollector", "collect", "loop", "await", "restore"}
  /\ status \in {"off", "running", "resolved"}
  /\ scrollAttempts \in 0..(maxScrollAttempts + 1)
  /\ previousHeight \in Heights
  /\ currentHeight \in Heights
  /\ processedTweetUrls \subseteq Urls
  /\ runs \in 0..MaxRuns
  /\ outcome \in {"none", "running", "success", "failure"}

\* ------------------------------------------------------------------ claims
Collecting == status \in {"running", "resolved"}

\* C1: in every state of the poll loop no two Items of the accumulated list
\* share an itemUrl and the set of seen URLs is the set of itemUrls of the
\* list; hence the list the Collector resolved with, the list the Orchestrator
\* works on and the published HarvestResult hold no duplicate itemUrl.
C1_NoDuplicateItemUrl ==
  /\ NoDup(UrlsOf(pageTweets))
  /\ processedTweetUrls = Range(UrlsOf(pageTweets))
  /\ NoDup(UrlsOf(collected))
  /\ NoDup(UrlsOf(tweets))
  /\ NoDup(UrlsOf(scrapedData.tweets))

\* a run published two items after a poll loop of several ticks
C1_Witness ==
  /\ outcome = "success"
  /\ Len(scrapedData.tweets) >= 2
  /\ scrapedData.tweets = tweets

\* C2: the Collector never executes a 51st tick, a tick that ends with the
\* attempt counter at the ceiling resolves, and, the interval timer firing,
\* a running Collector eventually resolves.
C2_BoundedTicks ==
  /\ [](scrollAttempts <= maxScrollAttempts)
  /\ [](status = "running" => scrollAttempts < maxScrollAttempts)
  /\ (status = "running" ~> status = "resolved")

\* the Collector resolved at the ceiling alone: the extent changed on the
\* last tick and the target was not reached
C2_Witness ==
  /\ status = "resolved"
  /\ scrollAttempts = maxScrollAttempts
  /\ currentHeight # previousHeight
  /\ Len(pageTweets) < targetTweetCount

\* ---------------------------------------------------- reading the run's log
Positions(e) == {j \in 1..Len(log) : log[j].ev = e}
Finished == pc = "idle" /\ outcome \in {"success", "failure"}
\* the secondary fetch of item k returned through the catch of scrapeComments
FetchFailed(k) == \E j \in Positions("return") : log[j].idx = k /\ log[j].url # "ok"
FetchReturned(k) == \E j \in Positions("return") : log[j].idx = k
\* what the secondary fetch of item k returned
FetchResult(k) == log[CHOOSE j \in Positions("return") : log[j].idx = k].res
CollectorReturned == Positions("collected") # {}
RestoreNavs == {j \in Positions("nav") : log[j].idx = 0}
DetailNavs == {j \in Positions("nav") : log[j].idx > 0}

\* C3: if the secondary fetch of some item k fails, the run still ends in
\* success with all N collected items, item k has an empty reply list, every
\* item was fetched, and every item holds what its own fetch returned.
C3_FaultIsolation ==
  (Finished /\ \E k \in 1..Len(collected) : FetchFailed(k)) =>
    /\ outcome = "success"
    /\ UrlsOf(scrapedData.tweets) = UrlsOf(collected)
    /\ \A k \in 1..Len(collected) :
         /\ FetchReturned(k)
         /\ scrapedData.tweets[k].comments = FetchResult(k)
         /\ FetchFailed(k) => scrapedData.tweets[k].comments = <<>>

\* C4: failures other than NoActiveContext and EmptyResult are not fatal: once
\* an active view exists and the Collector has returned at least one item,
\* the run ends in success with the HarvestResult holding every collected
\* item, whatever other step fails.
C4_SuccessOnceCollected ==
  (Finished /\ TruthyId(tab.id) /\ Len(collected) >= 1) =>
    /\ outcome = "success"
    /\ UrlsOf(scrapedData.tweets) = UrlsOf(collected)

\* C5: when the active-view query yields no view, or a view without an id,
\* the run ends in failure with the NoActiveContext error ('No active tab
\* found'), with no navigation, no script injection and no result.
C5_NoActiveContext ==
  (Finished /\ ~TruthyId(tab.id)) =>
    /\ outcome = "failure"
    /\ error = ErrPrefix \o ErrNoTab
    /\ Positions("nav") = {}
    /\ Positions("inject") = {}
    /\ Positions("publish") = {}
    /\ scrapedData = dataAtStart

\* C6: when the Collector resolves with zero items the run ends in failure
\* with 'No tweets found on this page', stores no HarvestResult, performs no
\* secondary fetch and issues no navigation.
C6_EmptyResult ==
  (CollectorReturned /\ Len(collected) = 0) =>
    /\ Finished
    /\ outcome = "failure"
    /\ error = ErrPrefix \o ErrNoTweets
    /\ Positions("publish") = {}
    /\ scrapedData = dataAtStart
    /\ Positions("call") = {}
    /\ Positions("nav") = {}
    /\ \A k \in 1..MaxItems : sc[k].pc = "none"

\* a second run whose Collector resolved with zero items, after a first run
\* that stored a result
C6_Witness ==
  /\ CollectorReturned
  /\ Len(collected) = 0
  /\ Finished
  /\ ~dataAtStart.isNull

\* C7: the itemUrls of the accumulated list are the distinct URLs scanned so
\* far in order of first appearance, a tick never removes or reorders what is
\* on the list, and the list the Collector resolves with has that order.
C7_FirstSeenOrder ==
  /\ [](Collecting => UrlsOf(pageTweets) = firstSeen)
  /\ [](CollectorReturned => UrlsOf(collected) = firstSeen)
  /\ [][status = "running" => IsPrefix(pageTweets, pageTweets')]_vars

\* the Collector resolved with two items after a later tick showed a listed
\* URL again at another document position
C7_Witness ==
  /\ status = "resolved"
  /\ reseen
  /\ scrollAttempts >= 2
  /\ Len(pageTweets) = 2

Attached(k) == \E j \in Positions("attach") : log[j].idx = k
CallsBefore(j) == {c \in Positions("call") : c < j}

\* C8: attaching replies never permutes, adds or removes items: the list the
\* Orchestrator works on and publishes has the itemUrls of the Collector's
\* list index by index, the k-th secondary fetch is called for the URL of
\* item k and navigates to its detail address, and item k holds the result of fetch k once attached and no
\* replies before.
C8_AttachInPlace ==
  (CollectorReturned /\ Len(collected) >= 1) =>
    /\ UrlsOf(tweets) = UrlsOf(collected)
    /\ \A j \in Positions("call") :
         /\ log[j].idx = Cardinality(CallsBefore(j)) + 1
         /\ log[j].url = collected[log[j].idx].tweetUrl
    /\ \A j \in DetailNavs :
         log[j].url = DetailAddress(collected[log[j].idx].tweetUrl)
    /\ \A k \in 1..Len(tweets) :
         tweets[k].comments = IF Attached(k) THEN FetchResult(k) ELSE <<>>
    /\ outcome = "success" =>
         /\ scrapedData.tweets = tweets
         /\ \A k \in 1..Len(collected) : Attached(k)

\* a published result of two items whose fetches returned different replies
C8_Witness ==
  /\ outcome = "success"
  /\ Len(scrapedData.tweets) = 2
  /\ scrapedData.tweets[1].comments # <<>>
  /\ scrapedData.tweets[2].comments = <<>>

LoopDone == CollectorReturned /\ Len(collected) >= 1 /\ i > Len(tweets) /\ pc # "loop"
FetchSteps == Positions("call") \cup Positions("return") \cup Positions("attach")
              \cup Positions("settle") \cup Positions("inject") \cup DetailNavs
MaxPos(S) == CHOOSE j \in S : \A m \in S : m <= j

\* C9: once the per-item loop has finished with originalUrl captured, exactly
\* one restoring navigation has been issued, of the tab of step 1 to
\* originalUrl, after every step of every secondary fetch and before the
\* publication and the success signal, so that the last navigation of a
\* successful run is to originalUrl; without a captured originalUrl, or before
\* the loop has finished, no restoring navigation is issued.
C9_RestoreOnNormalExit ==
  /\ (LoopDone /\ Truthy(originalUrl)) =>
       \E j \in RestoreNavs :
         /\ RestoreNavs = {j}
         /\ log[j].url = originalUrl
         /\ log[j].tab = tab.id
         /\ \A m \in FetchSteps : m < j
         /\ \A m \in Positions("publish") : m > j
         /\ \A m \in Positions("progress") : log[m].url = MsgDone => m > j
  /\ (outcome = "success" /\ Truthy(originalUrl)) =>
       log[MaxPos(Positions("nav"))].url = originalUrl
  /\ ~LoopDone => RestoreNavs = {}
  /\ ~Truthy(originalUrl) => RestoreNavs = {}

\* a successful run that navigated to a detail address and back
C9_Witness ==
  /\ outcome = "success"
  /\ Truthy(originalUrl)
  /\ DetailNavs # {}

InFlight == {k \in 1..MaxItems : sc[k].pc \in {"query", "update", "sleep", "exec"}}

\* C10: at most one secondary fetch is in flight, it is the fetch of the item
\* the loop is waiting at, and the navigation for an item is issued only
\* after the fetch of every earlier item has returned and been attached.
C10_SerializedFetches ==
  /\ Cardinality(InFlight) <= 1
  /\ \A k \in InFlight : pc = "await" /\ i = k
  /\ \A j \in DetailNavs : \A k \in 1..(log[j].idx - 1) :
       \E r \in Positions("return"), a \in Positions("attach") :
         /\ log[r].idx = k
         /\ log[a].idx = k
         /\ r < a
         /\ a < j

\* the fetch of the second item is in flight after the first was absorbed as
\* a failure
C10_Witness ==
  /\ 2 \in InFlight
  /\ FetchFailed(1)
  /\ \E j \in DetailNavs : log[j].idx = 2

\* C11: every navigation and every script injection of a run acts on the view
\* resolved by the first active-view query of the run (tab.id), whatever view
\* is active later in the run.
C11_SameView ==
  TruthyId(tab.id) =>
    \A j \in Positions("nav") \cup Positions("inject") : log[j].tab = tab.id

\* ------------------------------------------- reading the scans of ObservedSpec
Scans == Positions("scan")
NumScans == Cardinality(Scans)
ScannedDoc(j) == log[j].res
ScannedHeight(j) == log[j].n
\* the document of every tick so far: exactly three candidate nodes with
\* distinct URLs, never more, at a constant non-zero extent, target 50
ScenarioA ==
  /\ targetTweetCount = DefaultTweetCount
  /\ Scans # {}
  /\ \A j \in Scans :
       /\ Len(ScannedDoc(j)) = 3
       /\ NoDup(ScannedDoc(j))
       /\ \A p \in 1..3 : Truthy(ScannedDoc(j)[p])
       /\ ScannedHeight(j) # 0
  /\ \A j, k \in Scans :
       ScannedDoc(j) = ScannedDoc(k) /\ ScannedHeight(j) = ScannedHeight(k)

\* C12 as stated: in Scenario A the Collector resolves with exactly the three
\* items at the end of tick 1.
C12_ScenarioA_Tick1 ==
  ScenarioA =>
    /\ status = "resolved"
    /\ scrollAttempts = 1
    /\ \A j \in Scans : UrlsOf(pageTweets) = ScannedDoc(j)

\* C12 amended: in Scenario A the list holds exactly the three items from
\* tick 1 on, the Collector is still running after tick 1 (the extent differs
\* from the initial previous extent 0 and is recorded), and it resolves at the
\* end of tick 2, the first tick that finds the extent unchanged.
C12_ScenarioA_Tick2 ==
  ScenarioA =>
    /\ \A j \in Scans : UrlsOf(pageTweets) = ScannedDoc(j)
    /\ NumScans = scrollAttempts
    /\ scrollAttempts = 1 => (status = "running" /\ previousHeight = currentHeight)
    /\ scrollAttempts >= 2 => (status = "resolved" /\ scrollAttempts = 2)

\* Scenario A after the Collector resolved
C12_Witness ==
  /\ ScenarioA
  /\ status = "resolved"
  /\ Len(pageTweets) = 3

\* the distinct URLs the document showed over the ticks so far
Yielded == UNION {Range(ScannedDoc(j)) : j \in Scans} \ {NULL}

\* C13: a Collector whose ticks showed at least targetCount distinct URLs
\* never resolves with fewer than targetCount items; the list holds every
\* distinct URL of every tick, the final one included (no truncation to the
\* target); and a tick that ends with the count at or above the target
\* resolves, so that no tick runs after it.
C13_ScenarioB ==
  Collecting =>
    /\ (status = "resolved" /\ Cardinality(Yielded) >= targetTweetCount) =>
         Len(pageTweets) >= targetTweetCount
    /\ Range(UrlsOf(pageTweets)) = Yielded
    /\ Len(pageTweets) = Cardinality(Yielded)
    /\ Len(pageTweets) >= targetTweetCount => status = "resolved"

\* target 2: the first tick showed one URL, the second two more, and the
\* Collector resolved with three items
C13_Witness ==
  /\ status = "resolved"
  /\ targetTweetCount = SmallTweetCount
  /\ NumScans = 2
  /\ \E j \in Scans : Cardinality(Range(ScannedDoc(j)) \ {NULL}) < targetTweetCount
  /\ Len(pageTweets) > targetTweetCount

Occurrences(doc, u) == {p \in 1..Len(doc) : doc[p] = u}
\* doc consists of candidate nodes with URLs, those with URL u and others
\* with pairwise distinct URLs
SharedAndDistinct(doc, u) ==
  /\ \A p \in 1..Len(doc) : Truthy(doc[p])
  /\ Occurrences(doc, u) # {}
  /\ \A p, q \in 1..Len(doc) : (doc[p] = doc[q] /\ doc[p] # u) => p = q
FirstOccurrence(doc, u) == CHOOSE p \in Occurrences(doc, u) : \A q \in Occurrences(doc, u) : p <= q

\* C14: after a fresh Collector's tick on a document of N >= 1 nodes sharing
\* the URL u and M nodes with pairwise distinct other URLs, the list has
\* exactly M + 1 items, u occurs on it once, at the place of its first node
\* in document order, and every other URL keeps its document order.
C14_DuplicatesCollapsed ==
  (Collecting /\ NumScans = 1) =>
    \A j \in Scans : \A u \in ObservedUrls :
      SharedAndDistinct(ScannedDoc(j), u) =>
        LET doc == ScannedDoc(j)
            N == Cardinality(Occurrences(doc, u))
            M == Len(doc) - N
            first == FirstOccurrence(doc, u)
        IN /\ Len(pageTweets) = M + 1
           /\ Cardinality({k \in 1..Len(pageTweets) : pageTweets[k].tweetUrl = u}) = 1
           /\ pageTweets[first].tweetUrl = u
           /\ \A p \in 1..Len(doc) :
                doc[p] # u =>
                  pageTweets[p - Cardinality({q \in Occurrences(doc, u) : first < q /\ q < p})].tweetUrl = doc[p]

\* the tick scanned two nodes of one URL with a node of another URL between
\* them
C14_Witness ==
  /\ Collecting
  /\ NumScans = 1
  /\ \E j \in Scans : \E u \in ObservedUrls :
       /\ SharedAndDistinct(ScannedDoc(j), u)
       /\ Cardinality(Occurrences(ScannedDoc(j), u)) = 2
       /\ Len(ScannedDoc(j)) = 3
       /\ ScannedDoc(j)[2] # u

AllHaveUrl(ts) == \A k \in 1..Len(ts) : Truthy(ts[k].tweetUrl)
Called(k) == \E j \in Positions("call") : log[j].idx = k

\* C15: a candidate node without URL leaves no trace: no absent or empty URL
\* is ever marked processed or put on the list, the run is not failed by it
\* while the Collector polls, every item of the resolved list, of the
\* Orchestrator's list and of the HarvestResult has a non-empty itemUrl, and
\* every item the loop reaches gets its secondary fetch, so that a published
\* run has fetched every collected item.
C15_UrllessSkipped ==
  /\ \A u \in processedTweetUrls : Truthy(u)
  /\ AllHaveUrl(pageTweets)
  /\ Collecting => (outcome = "running" /\ error = NULL)
  /\ AllHaveUrl(collected)
  /\ AllHaveUrl(tweets)
  /\ AllHaveUrl(scrapedData.tweets)
  /\ \A j \in Positions("progress") :
       log[j].url = "item" =>
         (j < Len(log) /\ log[j + 1].ev = "call" /\ log[j + 1].idx = log[j].idx)
  /\ (LoopDone \/ outcome = "success") => \A k \in 1..Len(collected) : Called(k)

\* the Collector resolved with items after scanning a node without URL
C15_Witness ==
  /\ status = "resolved"
  /\ skipped
  /\ Len(pageTweets) >= 1

NoReplies(ts) == \A k \in 1..Len(ts) : ts[k].comments = <<>>
AttachesOf(k) == {j \in Positions("attach") : log[j].idx = k}

\* C16: the items of the Collector's list, while it polls and when it
\* resolves, have empty replies, and the Orchestrator's list does not exist
\* before the Collector returned; the replies of an item change only in the
\* step that resumes the loop after the item's own secondary fetch returned,
\* which is the first assignment for that item; no item is assigned twice
\* and a published run has assigned every item once.
C16_RepliesByOrchestratorOnce ==
  /\ [](NoReplies(pageTweets) /\ NoReplies(collected))
  /\ [](~CollectorReturned => tweets = <<>>)
  /\ [](\A k \in 1..MaxItems : Cardinality(AttachesOf(k)) <= 1)
  /\ [](\A j \in Positions("attach") :
          \E c \in Positions("collected"), r \in Positions("return") :
            c < r /\ r < j /\ log[r].idx = log[j].idx)
  /\ [](outcome = "success" =>
          \A k \in 1..Len(collected) : Cardinality(AttachesOf(k)) = 1)
  /\ [][\A k \in 1..Len(tweets) :
          (k <= Len(tweets') /\ tweets'[k].comments # tweets[k].comments) =>
            /\ pc = "await"
            /\ k = i
            /\ FetchReturned(k)
            /\ AttachesOf(k) = {}
            /\ log' = Append(log, AttachEv(k, tweets'[k].comments))]_vars

\* a published run of two items, both assigned, the second with replies
C16_Witness ==
  /\ outcome = "success"
  /\ Len(tweets) = 2
  /\ AttachesOf(1) # {}
  /\ AttachesOf(2) # {}
  /\ tweets[2].comments # <<>>

Published == Positions("publish") # {}

\* C17: a run publishes at most once, only when it ends in success, only
\* after every item's replies were attached and with the Orchestrator's list
\* as it is then; from the publication until the next run starts no step
\* changes the published result or the list it was made from, and no event of
\* the run follows the completion signal.
C17_PublishedOnce ==
  /\ [](Cardinality(Positions("publish")) <= 1)
  /\ [](Published <=> outcome = "success")
  /\ [](Published =>
          /\ \A k \in 1..Len(collected) : \E a \in AttachesOf(k) : \A p \in Positions("publish") : a < p
          /\ \A p \in Positions("publish") :
               /\ log[p].n = Len(collected)
               /\ p = Len(log) - 1
               /\ Positions("failure") = {}
          /\ scrapedData = [isNull |-> FALSE, tweets |-> tweets])
  /\ [](~Published /\ outcome # "none" => scrapedData = dataAtStart)
  /\ [][Published =>
          \/ Positions("publish")' = {}
          \/ (scrapedData' = scrapedData /\ tweets' = tweets /\ log' = log)]_vars

\* a second run published a result in place of the first run's
C17_Witness ==
  /\ Published
  /\ ~dataAtStart.isNull
  /\ Len(scrapedData.tweets) >= 1

IsProgress(e) == e.ev = "progress"
ProgressSignals == SelectSeq(log, IsProgress)
\* the signals of a run that collects n items and succeeds
ExpectedSignals(n) ==
  <<ProgressEv(MsgStart, 0, 0), ProgressEv(MsgFinding, 0, 0)>>
  \o [k \in 1..n |-> ProgressEv("item", k, n)]
  \o <<ProgressEv(MsgDone, 0, 0)>>
SignalText(e) == IF e.url = "item" THEN MsgItem(e.idx, e.n) ELSE e.url
ItemSignals == {j \in Positions("progress") : log[j].url = "item"}
DoneSignals == {j \in Positions("progress") : log[j].url = MsgDone}

\* C18: the progress signals of a run are, in this order, the start signal,
\* the pre-collection signal, "i of N" for i = 1..N and the completion
\* signal, or a prefix of them, and the progress text shown is that of the
\* last signal; the signal of item i is emitted before fetch i is called and
\* after fetch i-1 returned and was attached; the completion signal follows
\* the restoring navigation and the publication and is emitted exactly in
\* successful runs; a failed run sets the error text and emits no completion
\* signal.
C18_ProgressOrder ==
  runs > 0 =>
    /\ IsPrefix(ProgressSignals, ExpectedSignals(Len(collected)))
    /\ Len(ProgressSignals) >= 1
    /\ progress = SignalText(ProgressSignals[Len(ProgressSignals)])
    /\ \A j \in ItemSignals :
         /\ \A c \in Positions("call") : log[c].idx = log[j].idx => j < c
         /\ \A k \in 1..(log[j].idx - 1) :
              /\ \E r \in Positions("return") : log[r].idx = k /\ r < j
              /\ \E a \in Positions("attach") : log[a].idx = k /\ a < j
    /\ \A d \in DoneSignals :
         /\ \A m \in Positions("nav") \cup Positions("publish") : m < d
         /\ Published
    /\ outcome = "success" <=> DoneSignals # {}
    /\ outcome = "success" => (error = NULL /\ ProgressSignals = ExpectedSignals(Len(collected)))
    /\ outcome = "failure" =>
         /\ Positions("failure") # {}
         /\ error # NULL
         /\ progress # MsgDone

\* a run that failed after both of its per-item signals, following a run that
\* completed
C18_Witness ==
  /\ outcome = "failure"
  /\ ~dataAtStart.isNull
  /\ progress = MsgItem(2, 2)
  /\ Cardinality(ItemSignals) = 2

\* the stop condition as it stands at the end of a tick, read from the state
\* the tick leaves: the extent after the scroll, the list after the scan and
\* the incremented attempt counter
StopsAtEnd ==
  \/ currentHeight' = previousHeight
  \/ Len(pageTweets') >= targetTweetCount
  \/ scrollAttempts' >= maxScrollAttempts

\* C19: a tick runs only on a Collector that has not resolved, and it
\* resolves the Collector if and only if, at its end, the extent equals the
\* extent recorded by the previous tick (0 before the first tick), or the
\* count has reached the target, or the attempts have reached 50; otherwise
\* it records the extent and the Collector stays running; a running Collector
\* holds the extent of its last tick as the previous extent; once resolved,
\* the counter and the list do not change until the list is handed over.
C19_StopPredicate ==
  /\ [][scrollAttempts' = scrollAttempts + 1 =>
          /\ status = "running"
          /\ status' = "resolved" <=> StopsAtEnd
          /\ status' = "running" <=> ~StopsAtEnd
          /\ ~StopsAtEnd => previousHeight' = currentHeight'
          /\ StopsAtEnd => previousHeight' = previousHeight]_vars
  /\ [](status = "running" =>
          previousHeight = IF scrollAttempts = 0 THEN 0 ELSE currentHeight)
  /\ [][status = "resolved" =>
          \/ UNCHANGED <<status, scrollAttempts, pageTweets, processedTweetUrls>>
          \/ (status' = "off" /\ collected' = pageTweets)]_vars

\* the Collector resolved on a later tick by stagnation alone, at a non-zero
\* extent
C19_Witness ==
  /\ status = "resolved"
  /\ scrollAttempts >= 2
  /\ scrollAttempts < maxScrollAttempts
  /\ currentHeight = previousHeight
  /\ previousHeight # 0
  /\ Len(pageTweets) < targetTweetCount

NavsOf(k) == {j \in DetailNavs : log[j].idx = k}
SettlesOf(k) == {j \in Positions("settle") : log[j].idx = k}
ExtractionsOf(k) == {j \in Positions("inject") : log[j].url = "extractComments" /\ log[j].idx = k}
ReturnsOf(k) == {j \in Positions("return") : log[j].idx = k}

\* C20: within the secondary fetch of an item there is at most one
\* navigation, one settle delay, one injected extraction and one return; the
\* extraction is injected only after the navigation to that item's detail
\* address was issued and the settle delay has then elapsed, into the tab
\* that was navigated; the result is attached after the fetch returned; and
\* a fetch that failed at the tab lookup or at the navigation has injected no
\* extraction.
C20_FetchStepOrder ==
  \A k \in 1..MaxItems :
    /\ Cardinality(NavsOf(k)) <= 1
    /\ Cardinality(SettlesOf(k)) <= 1
    /\ Cardinality(ExtractionsOf(k)) <= 1
    /\ Cardinality(ReturnsOf(k)) <= 1
    /\ \A c \in Positions("call") : \A n \in NavsOf(k) : log[c].idx = k => c < n
    /\ \A s \in SettlesOf(k) : \E n \in NavsOf(k) : n < s
    /\ \A e \in ExtractionsOf(k) :
         /\ \E n \in NavsOf(k), s \in SettlesOf(k) :
              /\ n < s
              /\ s < e
              /\ log[n].url = DetailAddress(collected[k].tweetUrl)
              /\ log[n].tab = log[e].tab
         /\ \A r \in ReturnsOf(k) : e < r
    /\ \A a \in AttachesOf(k) : \E r \in ReturnsOf(k) : r < a
    /\ \A r \in ReturnsOf(k) :
         /\ log[r].url = "caught:lookup" => (NavsOf(k) = {} /\ ExtractionsOf(k) = {})
         /\ log[r].url = "caught:navigate" => (NavsOf(k) # {} /\ SettlesOf(k) = {} /\ ExtractionsOf(k) = {})
         /\ log[r].url \in {"ok", "caught:extract"} => ExtractionsOf(k) # {}

\* the navigation of the first item failed, the second item went through
\* navigation, settle delay and extraction and was attached
C20_Witness ==
  /\ \E r \in ReturnsOf(1) : log[r].url = "caught:navigate"
  /\ ExtractionsOf(2) # {}
  /\ \E r \in ReturnsOf(2) : log[r].url = "ok"
  /\ AttachesOf(2) # {}

RunInProgress == pc # "idle"

\* C21: isLoading is true exactly while a run is in progress: it becomes true
\* in the step that starts the run, stays true at every step of the run and
\* becomes false in the step that ends it, whether the run ends in success,
\* in 'No active tab found', in 'No tweets found on this page' or in any
\* other error; hence after a run has ended the Scrape Tweets button is
\* enabled.
C21_BusyFlag ==
  /\ [](isLoading <=> RunInProgress)
  /\ [](Finished => (~isLoading /\ ButtonEnabled))
  /\ [][(~isLoading /\ isLoading') => (pc = "idle" /\ pc' = "query" /\ runs' = runs + 1)]_vars
  /\ [][(isLoading /\ ~isLoading') =>
          (RunInProgress /\ Finished' /\ outcome = "running")]_vars

\* a second run ended by a rejected browser call, after a first run that
\* ended, with the button enabled again
C21_Witness ==
  /\ Finished
  /\ runs = 2
  /\ outcome = "failure"
  /\ error = ErrPrefix \o ErrApi
  /\ ButtonEnabled

\* C22: a run is started only while isLoading is false and no run is in
\* progress; a run that has ended has no secondary fetch in flight and no
\* Collector polling; and outside a run nothing is navigated, injected or
\* attached, so the navigations of two runs are never interleaved.
C22_OneRunAtATime ==
  /\ [][runs' # runs =>
          /\ ~isLoading
          /\ ~RunInProgress
          /\ runs' = runs + 1
          /\ RunInProgress'
          /\ isLoading']_vars
  /\ [](~RunInProgress => (InFlight = {} /\ status = "off"))
  /\ [][(~RunInProgress /\ ~RunInProgress') => UNCHANGED <<log, sc, tab, tweets, status>>]_vars
  /\ [][(RunInProgress /\ RunInProgress') => IsPrefix(log, log')]_vars

\* a second run is navigating the tab after a first run navigated it and
\* ended
C22_Witness ==
  /\ runs = 2
  /\ RunInProgress
  /\ ~dataAtStart.isNull
  /\ DetailNavs # {}

\* C23: while a run is in progress and when it has ended in failure, the
\* stored result is the one that was stored when the run started, neither
\* cleared nor replaced; a failed run has set the error to the message of its
\* failure; the error is null while a run is in progress and when it has
\* ended in success.
C23_FailureKeepsResult ==
  /\ outcome \in {"running", "failure"} => scrapedData = dataAtStart
  /\ outcome = "failure" =>
       /\ error # NULL
       /\ \E j \in Positions("failure") :
            /\ Positions("failure") = {j}
            /\ j = Len(log)
            /\ error = ErrPrefix \o log[j].url
  /\ outcome \in {"running", "success"} => error = NULL
  /\ outcome = "success" => Positions("failure") = {}

\* a run failed after an earlier run had stored a result, which is still
\* stored
C23_Witness ==
  /\ outcome = "failure"
  /\ ~dataAtStart.isNull
  /\ ~scrapedData.isNull
  /\ Len(scrapedData.tweets) >= 1
  /\ error # NULL

====
